---------------------------- MODULE Spec2Model ----------------------------
(***************************************************************************)
(* A model of the Financial-Transcripts-RAG backend: the vector retrieval  *)
(* of ChromaService.search_similar_chunks over per-company collections,    *)
(* the /query and /search endpoints with the RAG pipeline behind them, and *)
(* the background embedding generation with its shared status dictionary.  *)
(*                                                                         *)
(* Conventions.                                                            *)
(*  - A Python str that the code compares or splits is a sequence of       *)
(*    character codes (ASCII), so that comparison is lexicographic as in   *)
(*    Python and in a metadata filter on strings.                          *)
(*  - A float score is a fixed-point integer in tenths: 1.0 is One.        *)
(*  - An Optional value is a record [some, v]; None is some = FALSE.       *)
(*  - The vector store, the embedding model and the LLM are black boxes:   *)
(*    their outcomes are inputs drawn by the actions.                      *)
(***************************************************************************)
EXTENDS Integers, Sequences, FiniteSets, TLC

VARIABLES
    store,             \* the vector store: sequence of stored chunk entries
    whereMode,         \* how the store treats a string operand of $gte/$lte
    lastSearch,        \* the last search_similar_chunks call and what it returned
    embeddings_available,  \* ChromaService.embeddings_available, set at construction
    api,               \* the last API request handled and its response
    embedding_status,  \* embeddings.py: the global status dictionary
    tasks,             \* background tasks accepted and not yet started
    job,               \* the running background job (pc, request, position)
    inbox,             \* create requests that wait for the event loop, each with
                       \* the status the dictionary held when it arrived
    cache              \* the embedding cache directory: cache key -> pickled entry

vars ==
    <<store, whereMode, lastSearch, embeddings_available, api, embedding_status, tasks, job,
      inbox, cache>>

----------------------------------------------------------------------------
(* Bounds of the model *)

\* chunks held by the store, over all collections
MaxStored == 2
\* chunks of one transcript document
MaxChunksPerDoc == 2
\* largest max_results a search is called with
MaxResults == 2
\* characters of a text handed to _split_into_chunks
MaxTextLen == 5
\* create requests in flight: waiting for the event loop, or accepted with
\* their background task waiting to start
MaxPending == 2

----------------------------------------------------------------------------
(* Optional values and Python truthiness *)

\* None where a number is optional, and where a str or a list is optional
NoneNum == [some |-> FALSE, v |-> 0]
NoneSeq == [some |-> FALSE, v |-> <<>>]
Some(x) == [some |-> TRUE, v |-> x]

\* `x or default` on an Optional[float]: None and 0.0 are both falsy
OrElse(opt, default) == IF opt.some /\ opt.v # 0 THEN opt.v ELSE default

\* truthiness of an Optional[str] / Optional[list]: None and the empty value are falsy
Truthy(opt) == opt.some /\ opt.v # <<>>

----------------------------------------------------------------------------
(* Strings as character codes *)

Dash == <<45>>

Digits2(n) == <<48 + (n \div 10), 48 + (n % 10)>>

Digits4(n) ==
    <<48 + (n \div 1000), 48 + ((n \div 100) % 10), 48 + ((n \div 10) % 10), 48 + (n % 10)>>

\* "Jan" .. "Dec"
MonthAbbr ==
    << <<74, 97, 110>>, <<70, 101, 98>>, <<77, 97, 114>>, <<65, 112, 114>>,
       <<77, 97, 121>>, <<74, 117, 110>>, <<74, 117, 108>>, <<65, 117, 103>>,
       <<83, 101, 112>>, <<79, 99, 116>>, <<78, 111, 118>>, <<68, 101, 99>> >>

\* Python's str <= str: lexicographic on the character codes
RECURSIVE StrLE(_, _)
StrLE(a, b) ==
    IF a = <<>> THEN TRUE
    ELSE IF b = <<>> THEN FALSE
    ELSE IF Head(a) < Head(b) THEN TRUE
    ELSE IF Head(a) > Head(b) THEN FALSE
    ELSE StrLE(Tail(a), Tail(b))

\* str.split('-')
RECURSIVE SplitDash(_, _)
SplitDash(s, cur) ==
    IF s = <<>> THEN <<cur>>
    ELSE IF <<Head(s)>> = Dash THEN <<cur>> \o SplitDash(Tail(s), <<>>)
    ELSE SplitDash(Tail(s), Append(cur, Head(s)))

\* "unknown"
UnknownStr == <<117, 110, 107, 110, 111, 119, 110>>

\* embeddings.py: the date metadata taken from the filename stem
DateFromFilename(stem) ==
    LET parts == SplitDash(stem, <<>>)
    IN  IF Len(parts) >= 3
        THEN parts[1] \o Dash \o parts[2] \o Dash \o parts[3]
        ELSE UnknownStr

\* a date in the YYYY-MM-DD format DateRange admits
IsoDate(cal) == Digits4(cal.y) \o Dash \o Digits2(cal.m) \o Dash \o Digits2(cal.d)

\* calendar order of two dates
CalLE(a, b) ==
    \/ a.y < b.y
    \/ a.y = b.y /\ a.m < b.m
    \/ a.y = b.y /\ a.m = b.m /\ a.d <= b.d

----------------------------------------------------------------------------
(* Companies and collections *)

\* ChromaService.company_names, in dictionary order
CompanyList ==
    <<"AAPL", "AMD", "AMZN", "ASML", "CSCO", "GOOGL", "INTC", "MSFT", "MU", "NVDA">>

Companies == {CompanyList[i] : i \in DOMAIN CompanyList}

\* str.lower() on the ten symbols
Lower ==
    [c \in Companies |->
        CASE c = "AAPL" -> "aapl" [] c = "AMD" -> "amd" [] c = "AMZN" -> "amzn"
          [] c = "ASML" -> "asml" [] c = "CSCO" -> "csco" [] c = "GOOGL" -> "googl"
          [] c = "INTC" -> "intc" [] c = "MSFT" -> "msft" [] c = "MU" -> "mu"
          [] c = "NVDA" -> "nvda"]

\* the symbol as character codes, as it appears in a transcript's filename
SymbolCodes ==
    [c \in Companies |->
        CASE c = "AAPL" -> <<65, 65, 80, 76>> [] c = "AMD" -> <<65, 77, 68>>
          [] c = "AMZN" -> <<65, 77, 90, 78>> [] c = "ASML" -> <<65, 83, 77, 76>>
          [] c = "CSCO" -> <<67, 83, 67, 79>> [] c = "GOOGL" -> <<71, 79, 79, 71, 76>>
          [] c = "INTC" -> <<73, 78, 84, 67>> [] c = "MSFT" -> <<77, 83, 70, 84>>
          [] c = "MU" -> <<77, 85>> [] c = "NVDA" -> <<78, 86, 68, 65>>]

GetCollectionName(company) == "transcripts_" \o Lower[company]

\* the collection names of a list of companies, in order
CollectionNames(list) == [i \in DOMAIN list |-> GetCollectionName(list[i])]

SeqRange(s) == {s[i] : i \in DOMAIN s}

----------------------------------------------------------------------------
(* The corpus and the vector store *)

\* 1.0 in tenths
One == 10

\* the companies that have transcript files
DataCompanies == {"AAPL", "MSFT"}

\* the calendar dates of the transcript files
FileDates == {[y |-> 2020, m |-> 4, d |-> 30], [y |-> 2020, m |-> 7, d |-> 30]}

\* chunk texts, and the cosine distance the store reports between the query's
\* embedding and each text's embedding (0.0, 0.4, 1.2)
Texts == {1, 2, 3}
QueryDistance == <<0, 4, 12>>

\* the filename stem of a company's transcript of a date, e.g. 2020-Apr-30-AAPL,
\* as the character codes the code splits
FilenameStem(company, cal) ==
    Digits4(cal.y) \o Dash \o MonthAbbr[cal.m] \o Dash \o Digits2(cal.d)
        \o Dash \o SymbolCodes[company]

\* a decimal number as text, as an f-string formats it
DigitText(n) ==
    CASE n = 0 -> "0" [] n = 1 -> "1" [] n = 2 -> "2" [] n = 3 -> "3" [] n = 4 -> "4"
      [] n = 5 -> "5" [] n = 6 -> "6" [] n = 7 -> "7" [] n = 8 -> "8" [] n = 9 -> "9"

RECURSIVE IntText(_)
IntText(n) == IF n < 10 THEN DigitText(n) ELSE IntText(n \div 10) \o DigitText(n % 10)

MonthText ==
    <<"Jan", "Feb", "Mar", "Apr", "May", "Jun", "Jul", "Aug", "Sep", "Oct", "Nov", "Dec">>

\* the same filename stem as text, for the identifiers built from it
FilenameText(company, cal) ==
    IntText(cal.y) \o "-" \o MonthText[cal.m] \o "-"
        \o DigitText(cal.d \div 10) \o DigitText(cal.d % 10) \o "-" \o company

\* embeddings.py: document_id = f"{company.lower()}_{filename}"
DocumentId(company, filename) == Lower[company] \o "_" \o filename

\* chroma_service.py: chunk_id = f"{document_id}_chunk_{i}"
ChunkId(document_id, i) == document_id \o "_chunk_" \o IntText(i)

\* embeddings.py: the metadata prepared for a transcript file (its filename and
\* quarter are stored too; no operation modelled here reads them)
FileMetadata(company, stem) ==
    [date |-> DateFromFilename(stem), company |-> company]

IdsOf(st) == {st[i].id : i \in DOMAIN st}

\* Collection.add: entries whose id the store already holds are not added again
CollectionAdd(st, entries) ==
    st \o SelectSeq(entries, LAMBDA e : e.id \notin IdsOf(st))

\* config.py line 32: the name of the embedding model in use
EMBEDDING_MODEL == "all-MiniLM-L6-v2"

\* The vector a model gives a text.  A vector is named by the text it encodes
\* under the model in use; another model gives the same text another vector.
ModelEncode(model_name, text) ==
    IF model_name = EMBEDDING_MODEL THEN text ELSE text + Cardinality(Texts)

\* EmbeddingService.encode_texts, when the model loads and encodes
EncodeTexts(texts) == [i \in DOMAIN texts |-> ModelEncode(EMBEDDING_MODEL, texts[i])]

\* ChromaService.store_document_chunks, when encoding and the store succeed.
\* cal is the transcript's calendar date, kept beside the entry for the
\* statement of the date-range property; the code does not store it.
StoreDocumentChunks(st, company, document_id, chunks, metadata, cal) ==
    CollectionAdd(st,
        [i \in DOMAIN chunks |->
            [coll |-> GetCollectionName(company),
             id |-> ChunkId(document_id, i - 1),
             document |-> chunks[i],
             embedding |-> EncodeTexts(chunks)[i],
             date |-> metadata.date,
             chunk_index |-> i - 1,
             document_id |-> document_id,
             company |-> company,
             total_chunks |-> Len(chunks),
             cal |-> cal]])

\* the entries of one collection, in insertion order
Collection(st, name) == SelectSeq(st, LAMBDA e : e.coll = name)

----------------------------------------------------------------------------
(* ChromaService.search_similar_chunks *)

\* the where clause built for one company
WhereClause(company, date_filter) ==
    LET dated == date_filter.some /\ (date_filter.start.some \/ date_filter.end.some)
    IN  [company |-> company,
         gte |-> IF dated /\ Truthy(date_filter.start) THEN date_filter.start ELSE NoneSeq,
         lte |-> IF dated /\ Truthy(date_filter.end) THEN date_filter.end ELSE NoneSeq]

\* the store's evaluation of a where clause on an entry's metadata, when it
\* compares string operands (lexicographically)
Matches(e, where) ==
    /\ e.company = where.company
    /\ where.gte.some => StrLE(where.gte.v, e.date)
    /\ where.lte.some => StrLE(e.date, where.lte.v)

\* the store refuses a where clause with a string operand of $gte/$lte
QueryRaises(where, mode) == mode = "reject" /\ (where.gte.some \/ where.lte.some)

RECURSIVE InsertByDistance(_, _)
InsertByDistance(sorted, e) ==
    IF sorted = <<>> THEN <<e>>
    ELSE IF QueryDistance[Head(sorted).embedding] <= QueryDistance[e.embedding]
         THEN <<Head(sorted)>> \o InsertByDistance(Tail(sorted), e)
         ELSE <<e>> \o sorted

RECURSIVE NearestFirst(_)
NearestFirst(s) ==
    IF s = <<>> THEN <<>>
    ELSE InsertByDistance(NearestFirst(SubSeq(s, 1, Len(s) - 1)), s[Len(s)])

Min(a, b) == IF a <= b THEN a ELSE b

\* Collection.query: the n_results nearest entries that match the where clause
CollectionQuery(coll, where, n_results) ==
    LET hits == NearestFirst(SelectSeq(coll, LAMBDA e : Matches(e, where)))
    IN  SubSeq(hits, 1, Min(n_results, Len(hits)))

\* line 155: similarity_score = 1 - distance
SimilarityScore(distance) == One - distance

\* line 157: the threshold cutoff (the mutant keeps every candidate)
PassesThresholdDropped(similarity_score, similarity_threshold) == TRUE
PassesThreshold(similarity_score, similarity_threshold) ==
    similarity_score >= similarity_threshold

\* lines 158-167: the result built for a hit
ResultOf(company, e) ==
    [company |-> company,
     document_id |-> e.document_id,
     chunk_index |-> e.chunk_index,
     date |-> e.date,
     content |-> e.document,
     similarity_score |-> SimilarityScore(QueryDistance[e.embedding]),
     cal |-> e.cal]

\* lines 117-172: one iteration of the loop over the companies
SearchCompany(st, company, max_results, similarity_threshold, date_filter, mode) ==
    LET coll == Collection(st, GetCollectionName(company))
        where == WhereClause(company, date_filter)
        hits == CollectionQuery(coll, where, Min(max_results * 2, 50))
        kept == SelectSeq(hits, LAMBDA e :
                    PassesThreshold(SimilarityScore(QueryDistance[e.embedding]),
                                    similarity_threshold))
    IN  IF Len(coll) = 0 THEN [queried |-> FALSE, results |-> <<>>]
        ELSE IF QueryRaises(where, mode) THEN [queried |-> TRUE, results |-> <<>>]
        ELSE [queried |-> TRUE, results |-> [i \in DOMAIN kept |-> ResultOf(company, kept[i])]]

\* line 115: company_filter or list(self.company_names.keys())
\* (the mutant searches every company whatever the filter)
CompaniesToSearchAll(company_filter) == CompanyList
CompaniesToSearch(company_filter) ==
    IF Truthy(company_filter) THEN company_filter.v ELSE CompanyList

RECURSIVE InsertByScore(_, _)
InsertByScore(sorted, r) ==
    IF sorted = <<>> THEN <<r>>
    ELSE IF Head(sorted).similarity_score >= r.similarity_score
         THEN <<Head(sorted)>> \o InsertByScore(Tail(sorted), r)
         ELSE <<r>> \o sorted

RECURSIVE SortedByScore(_)
SortedByScore(s) ==
    IF s = <<>> THEN <<>>
    ELSE InsertByScore(SortedByScore(SubSeq(s, 1, Len(s) - 1)), s[Len(s)])

\* line 175: all_results.sort(key=similarity_score, reverse=True), a stable sort
\* (the mutant leaves the results in the order the companies were searched)
SortResultsSkipped(all_results) == all_results
SortResults(all_results) == SortedByScore(all_results)

\* line 176: all_results[:max_results], for max_results >= 0
\* (the mutant cuts at the number of candidates asked of each collection)
LimitResultsPerCollection(all_results, max_results) ==
    SubSeq(all_results, 1, Min(max_results * 2, Len(all_results)))
LimitResults(all_results, max_results) ==
    SubSeq(all_results, 1, Min(max_results, Len(all_results)))

RECURSIVE Concat(_)
Concat(ss) == IF ss = <<>> THEN <<>> ELSE Head(ss) \o Concat(Tail(ss))

\* the whole call; embedded is whether encode_single_text returned (it raises
\* when the model cannot be loaded, and the outer except returns [])
SearchSimilarChunks(st, embedded, company_filter, max_results, thr, date_filter, mode) ==
    LET companies == CompaniesToSearch(company_filter)
        per == [i \in DOMAIN companies |->
                   SearchCompany(st, companies[i], max_results, thr, date_filter, mode)]
        all_results == Concat([i \in DOMAIN per |-> per[i].results])
        asked == SelectSeq(companies,
                     LAMBDA c : Len(Collection(st, GetCollectionName(c))) > 0)
    IN  IF ~embedded
        THEN [visited |-> <<>>, queried |-> <<>>, results |-> <<>>]
        ELSE [visited |-> CollectionNames(companies),
              queried |-> CollectionNames(asked),
              results |-> LimitResults(SortResults(all_results), max_results)]

----------------------------------------------------------------------------
(* The initial values of the three parts of the state *)

NoSearch == [op |-> "none"]

NoRequest == [op |-> "none"]

\* embeddings.py lines 16-24
InitialStatus ==
    [status |-> "idle", progress |-> 0, total_documents |-> 0,
     processed_documents |-> 0, current_company |-> "None",
     estimated_time_remaining |-> "None", error |-> "None"]

NoJob == [pc |-> "none"]

\* an empty cache directory
NoCache == <<>>

----------------------------------------------------------------------------
(* Retrieval: transcripts are stored, and searches run over the store *)

\* the chunk lists a transcript may split into
ChunkLists ==
    UNION {[1..n -> Texts] : n \in 1..MaxChunksPerDoc}

\* the company filters a search is called with: None, [], and lists of symbols
FilterChoices ==
    {NoneSeq, Some(<<>>), Some(<<"MSFT">>), Some(<<"NVDA">>), Some(<<"MSFT", "AAPL">>)}

\* the thresholds a search is called with (0.0 and 0.7)
ThresholdChoices == {0, 7}

\* the bounds of the date range a query carries: 2020-06-01 and 2020-12-31
RangeStartCal == [y |-> 2020, m |-> 6, d |-> 1]
RangeEndCal == [y |-> 2020, m |-> 12, d |-> 31]
RangeStart == Some(IsoDate(RangeStartCal))
RangeEnd == Some(IsoDate(RangeEndCal))

\* the date filters a search is called with: None, and a dictionary with a
\* start, an end or both
DateFilterChoices ==
    {[some |-> FALSE, start |-> NoneSeq, end |-> NoneSeq],
     [some |-> TRUE, start |-> RangeStart, end |-> NoneSeq],
     [some |-> TRUE, start |-> NoneSeq, end |-> RangeEnd],
     [some |-> TRUE, start |-> RangeStart, end |-> RangeEnd]}

\* the background job's step for one transcript file: its chunks are stored
\* with the date taken from its filename
StoreTranscript(company, cal, chunks) ==
    /\ lastSearch = NoSearch
    /\ Len(store) + Len(chunks) <= MaxStored
    /\ store' = StoreDocumentChunks(store, company,
                                     DocumentId(company, FilenameText(company, cal)),
                                     chunks,
                                     FileMetadata(company, FilenameStem(company, cal)),
                                     cal)
    /\ UNCHANGED <<inbox, cache, whereMode, lastSearch, embeddings_available, api, embedding_status,
                   tasks, job>>

\* one call of search_similar_chunks whose query is encoded
Search(company_filter, max_results, similarity_threshold, date_filter) ==
    /\ lastSearch = NoSearch
    /\ lastSearch' =
          [op |-> "search",
           company_filter |-> company_filter,
           max_results |-> max_results,
           similarity_threshold |-> similarity_threshold,
           date_filter |-> date_filter,
           embedded |-> TRUE,
           out |-> SearchSimilarChunks(store, TRUE, company_filter, max_results,
                                       similarity_threshold, date_filter, whereMode)]
    /\ UNCHANGED <<inbox, cache, store, whereMode, embeddings_available, api, embedding_status, tasks, job>>

\* line 106: the default similarity_threshold of the signature, 0.7
DefaultSearchThreshold == 7

\* a call, with the default threshold and no date filter, whose query the
\* embedding model fails to encode
SearchEncodeFails(company_filter, max_results) ==
    /\ lastSearch = NoSearch
    /\ lastSearch' =
          [op |-> "search",
           company_filter |-> company_filter,
           max_results |-> max_results,
           similarity_threshold |-> DefaultSearchThreshold,
           date_filter |-> [some |-> FALSE, start |-> NoneSeq, end |-> NoneSeq],
           embedded |-> FALSE,
           out |-> SearchSimilarChunks(store, FALSE, company_filter, max_results,
                                       DefaultSearchThreshold,
                                       [some |-> FALSE, start |-> NoneSeq, end |-> NoneSeq],
                                       whereMode)]
    /\ UNCHANGED <<inbox, cache, store, whereMode, embeddings_available, api, embedding_status, tasks, job>>

\* the caller has consumed the returned list
SearchReturned ==
    /\ lastSearch # NoSearch
    /\ lastSearch' = NoSearch
    /\ UNCHANGED <<inbox, cache, store, whereMode, embeddings_available, api, embedding_status, tasks, job>>

SearchInit ==
    /\ store = <<>>
    /\ whereMode \in {"compare", "reject"}
    /\ lastSearch = NoSearch
    /\ embeddings_available = TRUE
    /\ api = NoRequest
    /\ embedding_status = InitialStatus
    /\ tasks = <<>>
    /\ job = NoJob
    /\ inbox = <<>>
    /\ cache = NoCache

SearchNext ==
    \/ \E company \in DataCompanies, cal \in FileDates, chunks \in ChunkLists :
          StoreTranscript(company, cal, chunks)
    \/ \E company_filter \in FilterChoices, max_results \in 1..MaxResults,
          similarity_threshold \in ThresholdChoices, date_filter \in DateFilterChoices :
          Search(company_filter, max_results, similarity_threshold, date_filter)
    \/ \E company_filter \in FilterChoices, max_results \in 1..MaxResults :
          SearchEncodeFails(company_filter, max_results)
    \/ SearchReturned

SearchSpec == SearchInit /\ [][SearchNext]_vars

Searched == lastSearch.op = "search"

\* the stored entry a result was built from
EntryOf(r) == CHOOSE e \in SeqRange(store) : e.id = ChunkId(r.document_id, r.chunk_index)

(* C1: every chunk a search returns has a similarity score, 1 minus the     *)
(* distance the store reports for it, of at least the similarity_threshold *)
(* of the call.                                                            *)
C1_ScoreAtLeastThreshold ==
    Searched =>
        \A i \in DOMAIN lastSearch.out.results :
            LET r == lastSearch.out.results[i]
            IN  /\ \E e \in SeqRange(store) : e.id = ChunkId(r.document_id, r.chunk_index)
                /\ r.similarity_score = One - QueryDistance[EntryOf(r).embedding]
                /\ r.similarity_score >= lastSearch.similarity_threshold

\* a search that returned a chunk while the store held a chunk below the threshold
C1_Witness ==
    /\ Searched
    /\ lastSearch.out.results # <<>>
    /\ \E e \in SeqRange(store) :
          /\ e.coll \in SeqRange(lastSearch.out.queried)
          /\ One - QueryDistance[e.embedding] < lastSearch.similarity_threshold

\* the stored chunks of the collections a search asked that pass its threshold
Candidates ==
    {e \in SeqRange(store) :
        /\ e.coll \in SeqRange(lastSearch.out.queried)
        /\ One - QueryDistance[e.embedding] >= lastSearch.similarity_threshold}

(* C2: a search called with max_results >= 1 returns at most max_results   *)
(* chunks, however many companies are searched and however many candidates *)
(* each collection returns.                                                *)
C2_AtMostMaxResults ==
    Searched => Len(lastSearch.out.results) <= lastSearch.max_results

\* a search that had more candidates above the threshold than max_results
C2_Witness ==
    /\ Searched
    /\ ~lastSearch.date_filter.some
    /\ Cardinality(Candidates) > lastSearch.max_results
    /\ Len(lastSearch.out.results) = lastSearch.max_results

(* C3: the returned list is ordered by non-increasing similarity score     *)
(* across all searched companies.                                          *)
C3_SortedByScore ==
    Searched =>
        \A i \in DOMAIN lastSearch.out.results :
            i + 1 \in DOMAIN lastSearch.out.results =>
                lastSearch.out.results[i].similarity_score
                    >= lastSearch.out.results[i + 1].similarity_score

\* two results of different companies, the better one from the company searched later
C3_Witness ==
    /\ Searched
    /\ ~Truthy(lastSearch.company_filter)
    /\ Len(lastSearch.out.results) >= 2
    /\ lastSearch.out.results[1].company = "MSFT"
    /\ lastSearch.out.results[2].company = "AAPL"
    /\ lastSearch.out.results[1].similarity_score > lastSearch.out.results[2].similarity_score

\* the collections of a list of companies
CollectionsOf(list) == {GetCollectionName(c) : c \in SeqRange(list)}

----------------------------------------------------------------------------
(* The RAG pipeline and the /query, /search and /companies endpoints *)

\* config.py line 38: SIMILARITY_THRESHOLD = 0.7
SIMILARITY_THRESHOLD == 7

\* query.py line 100: request.similarity_threshold or 0.5
SearchDefaultThreshold == 5

\* rag_pipeline.py line 110: similarity_threshold or 0.7
ErrorPathThreshold == 7

IsSpace(c) == c \in {9, 10, 13, 32}

RECURSIVE LStrip(_)
LStrip(s) == IF s # <<>> /\ IsSpace(Head(s)) THEN LStrip(Tail(s)) ELSE s

RECURSIVE RStrip(_)
RStrip(s) ==
    IF s # <<>> /\ IsSpace(s[Len(s)]) THEN RStrip(SubSeq(s, 1, Len(s) - 1)) ELSE s

\* str.strip()
Strip(s) == RStrip(LStrip(s))

\* the opening words of the three fixed answers: "I apologize", "I couldn't
\* find ... '<question>'", "An error occurred while processing your query: "
ApologyText == <<73, 32, 97, 112, 111, 108, 111, 103, 105, 122, 101>>
NoContextText(question) == <<73, 32, 99, 111, 117, 108, 100, 110, 39, 116, 32>> \o question
ErrorText(message) == <<65, 110, 32, 101, 114, 114, 111, 114, 58, 32>> \o message

\* what the LLM does with a prompt: "text" answers " A. ", "blank" answers only
\* whitespace, "empty" answers no text, "raises" fails; "no_model" is a
\* GeminiService whose client was never initialised
LlmOutcomes == {"text", "blank", "empty", "raises", "no_model"}

LlmText(llm) == IF llm = "text" THEN <<32, 65, 46, 32>> ELSE <<32, 10>>

\* GeminiService.generate_response: Optional[str]
GenerateResponse(question, sources, llm) ==
    IF llm = "no_model" THEN NoneSeq
    ELSE IF sources = <<>> THEN Some(NoContextText(question))
    ELSE IF llm = "raises" THEN NoneSeq
    ELSE IF llm = "empty" THEN NoneSeq
    ELSE Some(Strip(LlmText(llm)))

\* rag_pipeline.py lines 68-69: the answer when generate_response gave none
\* (the mutant passes the generated value on as it is)
AnswerOfUnchecked(generated) == generated.v
AnswerOf(generated) == IF ~Truthy(generated) THEN ApologyText ELSE generated.v

\* RAGPipeline._format_sources: a chunk whose SourceDocument fails validation
\* (similarity_score outside 0.0 .. 1.0) is left out
FormatSources(chunks) ==
    SelectSeq(chunks, LAMBDA c : c.similarity_score >= 0 /\ c.similarity_score <= One)

RECURSIVE SumChunks(_, _)
SumChunks(st, companies) ==
    IF companies = <<>> THEN 0
    ELSE Len(Collection(st, GetCollectionName(Head(companies))))
            + SumChunks(st, Tail(companies))

\* RAGPipeline._estimate_total_chunks_searched
EstimateTotalChunksSearched(st, company_filter) ==
    SumChunks(st, IF Truthy(company_filter) THEN company_filter.v ELSE CompanyList)

\* rag_pipeline.py lines 40-46: the date filter built from the request
BuildDateFilter(date_range) ==
    IF ~date_range.some
    THEN [some |-> FALSE, start |-> NoneSeq, end |-> NoneSeq]
    ELSE [some |-> TRUE,
          start |-> IF Truthy(date_range.start) THEN date_range.start ELSE NoneSeq,
          end |-> IF Truthy(date_range.end) THEN date_range.end ELSE NoneSeq]

\* str(e) of the exception a fault raises
FaultMessage(fault) == IF fault = "response" THEN <<>> ELSE <<101, 114, 114>>

NoRetrieval == [called |-> FALSE]

\* rag_pipeline.py lines 98-119: the except clause of process_query
\* (the mutant lets the exception go on to the endpoint)
PipelineErrorRaises(question, similarity_threshold, max_results, fault) ==
    [raised |-> TRUE, error_path |-> TRUE]
PipelineError(question, similarity_threshold, max_results, fault) ==
    [raised |-> FALSE,
     error_path |-> TRUE,
     query |-> question,
     answer |-> ErrorText(FaultMessage(fault)),
     sources |-> <<>>,
     metadata |-> [total_chunks_searched |-> 0,
                   similarity_threshold |->
                       IF similarity_threshold # 0 THEN similarity_threshold
                       ELSE ErrorPathThreshold,
                   max_results |-> max_results]]

\* RAGPipeline.process_query.  env.embedded: the query is encoded; env.llm: the
\* LLM's outcome; env.fault: the step of the try block, if any, at which an
\* exception reaches process_query itself.
ProcessQuery(st, mode, request, env) ==
    LET question == request.question
        company_filter ==
            IF Truthy(request.company_filter) THEN request.company_filter ELSE NoneSeq
        max_results == request.max_results
        similarity_threshold == OrElse(request.similarity_threshold, SIMILARITY_THRESHOLD)
        date_filter == BuildDateFilter(request.date_range)
        found == SearchSimilarChunks(st, env.embedded, company_filter, max_results,
                                     similarity_threshold, date_filter, mode)
        generated == GenerateResponse(question, found.results, env.llm)
        retrieval == [called |-> TRUE, company_filter |-> company_filter,
                      max_results |-> max_results,
                      similarity_threshold |-> similarity_threshold,
                      date_filter |-> date_filter]
        outcome ==
            IF env.fault # "none"
            THEN PipelineError(question, similarity_threshold, max_results, env.fault)
            ELSE [raised |-> FALSE,
                  error_path |-> FALSE,
                  query |-> question,
                  answer |-> AnswerOf(generated),
                  sources |-> FormatSources(found.results),
                  metadata |-> [total_chunks_searched |->
                                    EstimateTotalChunksSearched(st, company_filter),
                                similarity_threshold |-> similarity_threshold,
                                max_results |-> max_results]]
    IN  [retrieval |-> retrieval,
         generation_called |-> env.fault # "retrieval",
         outcome |-> outcome]

\* the status a client receives for what the endpoint's try block did: an
\* HTTPException is raised again as it is, any other exception becomes a 500
\* (the mutant answers 500 for an HTTPException too)
EndpointStatusAll500(raised) == IF raised = "none" THEN 200 ELSE 500
EndpointStatus(raised) ==
    CASE raised = "none" -> 200
      [] raised = "http503" -> 503
      [] raised = "http400" -> 400
      [] OTHER -> 500

\* query.py: process_rag_query
ProcessRagQuery(st, mode, available, request, env) ==
    IF ~available
    THEN [status |-> EndpointStatus("http503"), retrieval |-> NoRetrieval,
          generation_called |-> FALSE]
    ELSE IF Strip(request.question) = <<>>
    THEN [status |-> EndpointStatus("http400"), retrieval |-> NoRetrieval,
          generation_called |-> FALSE]
    ELSE LET p == ProcessQuery(st, mode, request, env)
         IN  [status |-> EndpointStatus(IF p.outcome.raised THEN "exception" ELSE "none"),
              retrieval |-> p.retrieval,
              generation_called |-> p.generation_called,
              body |-> p.outcome]

\* query.py: vector_similarity_search.  A fault at "response" is an exception
\* while the results are formatted, which no inner handler catches.
VectorSimilaritySearch(st, mode, available, request, env) ==
    IF ~available
    THEN [status |-> EndpointStatus("http503"), retrieval |-> NoRetrieval,
          generation_called |-> FALSE]
    ELSE IF Strip(request.question) = <<>>
    THEN [status |-> EndpointStatus("http400"), retrieval |-> NoRetrieval,
          generation_called |-> FALSE]
    ELSE LET company_filter ==
                 IF Truthy(request.company_filter) THEN request.company_filter ELSE NoneSeq
             similarity_threshold ==
                 OrElse(request.similarity_threshold, SearchDefaultThreshold)
             no_dates == [some |-> FALSE, start |-> NoneSeq, end |-> NoneSeq]
             found == SearchSimilarChunks(st, env.embedded, company_filter,
                                          request.max_results, similarity_threshold,
                                          no_dates, mode)
             invalid == \E i \in DOMAIN found.results :
                            \/ found.results[i].similarity_score < 0
                            \/ found.results[i].similarity_score > One
             failed == env.fault = "response" \/ invalid
         IN  [status |-> EndpointStatus(IF failed THEN "exception" ELSE "none"),
              retrieval |-> [called |-> TRUE, company_filter |-> company_filter,
                             max_results |-> request.max_results,
                             similarity_threshold |-> similarity_threshold,
                             date_filter |-> no_dates],
              generation_called |-> FALSE,
              escaped |-> failed,
              body |-> [query |-> request.question,
                        results |-> found.results,
                        total_results |-> Len(found.results)]]

\* the documents of a collection
DocumentsOf(coll) == {coll[i].document_id : i \in DOMAIN coll}

\* health.py: get_companies.  ChromaService.get_company_stats gives a company
\* without chunks the date_range None, the endpoint passes {"start": None,
\* "end": None} to CompanyInfo, whose date_range is a Dict[str, str]: the
\* validation error is caught by the endpoint, which answers an empty list.
GetCompanies(st) ==
    LET counts == [i \in DOMAIN CompanyList |->
                      Cardinality(DocumentsOf(
                          Collection(st, GetCollectionName(CompanyList[i]))))]
        failed == \E i \in DOMAIN counts : counts[i] = 0
    IN  IF failed
        THEN [status |-> 200, failed |-> TRUE, companies |-> <<>>, total_companies |-> 0]
        ELSE [status |-> 200, failed |-> FALSE,
              companies |-> [i \in DOMAIN CompanyList |->
                                [symbol |-> CompanyList[i], transcript_count |-> counts[i]]],
              total_companies |-> Len(CompanyList)]

\* the questions and queries of the requests: " ", " \t" and "why?"
Questions == {<<32>>, <<32, 9>>, <<119, 104, 121, 63>>}

\* the thresholds of the requests: omitted, 0.0, 0.5 and 1.0
RequestThresholds == {NoneNum, Some(0), Some(5), Some(One)}

NoDateRange == [some |-> FALSE, start |-> NoneSeq, end |-> NoneSeq]

QueryRequests ==
    [question : Questions,
     company_filter : {NoneSeq, Some(<<"AAPL">>)},
     max_results : 1..MaxResults,
     similarity_threshold : RequestThresholds,
     date_range : {NoDateRange, [some |-> TRUE, start |-> RangeStart, end |-> NoneSeq]}]

SearchRequests ==
    [question : Questions,
     company_filter : {NoneSeq, Some(<<"AAPL">>)},
     max_results : 1..MaxResults,
     similarity_threshold : RequestThresholds]

QueryEnvs ==
    [embedded : BOOLEAN, llm : LlmOutcomes,
     fault : {"none", "retrieval", "generation", "response"}]

SearchEnvs == [embedded : BOOLEAN, llm : {"text"}, fault : {"none", "response"}]

\* the stores the endpoints run over: empty, and one transcript of two chunks
\* (scores 0.6 and 1.0)
SampleStore ==
    StoreDocumentChunks(<<>>, "AAPL",
        DocumentId("AAPL", FilenameText("AAPL", [y |-> 2020, m |-> 7, d |-> 30])),
        <<2, 1>>,
        FileMetadata("AAPL", FilenameStem("AAPL", [y |-> 2020, m |-> 7, d |-> 30])),
        [y |-> 2020, m |-> 7, d |-> 30])

PostQuery(request, env) ==
    /\ api = NoRequest
    /\ api' = [op |-> "query", request |-> request, env |-> env,
               resp |-> ProcessRagQuery(store, whereMode, embeddings_available,
                                        request, env)]
    /\ UNCHANGED <<inbox, cache, store, whereMode, lastSearch, embeddings_available, embedding_status,
                   tasks, job>>

PostSearch(request, env) ==
    /\ api = NoRequest
    /\ api' = [op |-> "search", request |-> request, env |-> env,
               resp |-> VectorSimilaritySearch(store, whereMode, embeddings_available,
                                               request, env)]
    /\ UNCHANGED <<inbox, cache, store, whereMode, lastSearch, embeddings_available, embedding_status,
                   tasks, job>>

GetCompaniesRequest ==
    /\ api = NoRequest
    /\ api' = [op |-> "companies", resp |-> GetCompanies(store)]
    /\ UNCHANGED <<inbox, cache, store, whereMode, lastSearch, embeddings_available, embedding_status,
                   tasks, job>>

\* the response has been sent
ApiResponded ==
    /\ api # NoRequest
    /\ api' = NoRequest
    /\ UNCHANGED <<inbox, cache, store, whereMode, lastSearch, embeddings_available, embedding_status,
                   tasks, job>>

ApiInit ==
    /\ store \in {<<>>, SampleStore}
    /\ whereMode \in {"compare", "reject"}
    /\ lastSearch = NoSearch
    /\ embeddings_available \in BOOLEAN
    /\ api = NoRequest
    /\ embedding_status = InitialStatus
    /\ tasks = <<>>
    /\ job = NoJob
    /\ inbox = <<>>
    /\ cache = NoCache

ApiNext ==
    \/ \E request \in QueryRequests, env \in QueryEnvs : PostQuery(request, env)
    \/ \E request \in SearchRequests, env \in SearchEnvs : PostSearch(request, env)
    \/ GetCompaniesRequest
    \/ ApiResponded

ApiSpec == ApiInit /\ [][ApiNext]_vars

\* the request reached retrieval (it was neither refused with 503 nor with 400)
Retrieved == api.op \in {"query", "search"} /\ api.resp.retrieval.called

(* C6: for every similarity_threshold t in 0.0 .. 1.0 that a request       *)
(* supplies, 0.0 included, /query and /search call retrieval with exactly  *)
(* t and the /query metadata reports t; the default (the settings value    *)
(* for /query, 0.5 for /search) is used only when the request omits it.    *)
C6_ThresholdPassedOn ==
    Retrieved =>
        LET t == api.request.similarity_threshold
            default == IF api.op = "query" THEN SIMILARITY_THRESHOLD
                       ELSE SearchDefaultThreshold
        IN  /\ t.some => api.resp.retrieval.similarity_threshold = t.v
            /\ (t.some /\ api.op = "query" /\ api.resp.status = 200) =>
                  api.resp.body.metadata.similarity_threshold = t.v
            /\ ~t.some => api.resp.retrieval.similarity_threshold = default

(* C7: process_query never raises: whatever fails in retrieval, in the     *)
(* LLM's generation or in building the response, it returns a response     *)
(* whose query is the request's question and whose answer is not empty;    *)
(* on the error path the sources are empty and total_chunks_searched is 0. *)
C7_AlwaysAnswers ==
    (api.op = "query" /\ api.resp.retrieval.called) =>
        LET b == api.resp.body
        IN  /\ ~b.raised
            /\ b.query = api.request.question
            /\ b.answer # <<>>
            /\ b.error_path => (b.sources = <<>> /\ b.metadata.total_chunks_searched = 0)

\* a query over a store with chunks whose pipeline took the error path
C7_Witness ==
    /\ api.op = "query"
    /\ api.resp.retrieval.called
    /\ store # <<>>
    /\ api.env.fault = "generation"
    /\ api.resp.body.error_path
    /\ api.resp.body.answer # <<>>

\* an exception was raised while the request was processed, other than a
\* deliberately raised HTTP error
Failed ==
    \/ /\ Retrieved
       /\ \/ ~api.env.embedded
          \/ api.env.fault # "none"
          \/ /\ api.op = "query"
             /\ api.env.llm = "raises"
             /\ api.resp.status = 200
             /\ api.resp.body.sources # <<>>
    \/ api.op = "companies" /\ api.resp.failed

C9_RefusedEarly ==
    api.op \in {"query", "search"} =>
        LET blank == Strip(api.request.question) = <<>>
        IN  /\ ~embeddings_available => api.resp.status = 503
            /\ (embeddings_available /\ blank) => api.resp.status = 400
            /\ (~embeddings_available \/ blank) =>
                  (~api.resp.retrieval.called /\ ~api.resp.generation_called)
            /\ (embeddings_available /\ ~blank) => api.resp.retrieval.called

\* a whitespace-only question sent while the embedding service is unavailable
C9_Witness ==
    /\ api.op = "query"
    /\ ~embeddings_available
    /\ Strip(api.request.question) = <<>>
    /\ api.request.question # <<>>
    /\ api.resp.status = 503

----------------------------------------------------------------------------
(* Background embedding generation: POST /embeddings/create and the task   *)
(* it schedules.  The task is a coroutine that never awaits: once started  *)
(* it runs to its end before the event loop handles another request, so a  *)
(* request is handled only while no job runs.  Its steps are separate      *)
(* actions so that every value the status dictionary takes is a state.     *)

\* the transcript files under the transcripts directory: the dates of each
\* company's files, in the order glob lists them; a company without an entry
\* has no directory
TranscriptFiles(company) ==
    CASE company = "AAPL" -> <<[y |-> 2020, m |-> 4, d |-> 30], [y |-> 2020, m |-> 7, d |-> 30]>>
      [] company = "MSFT" -> <<[y |-> 2020, m |-> 4, d |-> 30]>>
      [] OTHER -> <<>>

CompanyDirExists(company) == company \in DataCompanies

\* the chunks _split_into_chunks makes of a file's content
FileChunks(company, cal) ==
    IF company = "AAPL" THEN (IF cal.m = 4 THEN <<2>> ELSE <<1>>) ELSE <<3>>

EmbeddingRequests ==
    {[force_recreate |-> FALSE, companies |-> NoneSeq],
     [force_recreate |-> TRUE, companies |-> Some(<<"AAPL">>)]}

\* embeddings.py lines 228-231
CompaniesToProcess(request) ==
    IF Truthy(request.companies) THEN request.companies.v ELSE CompanyList

RECURSIVE CountDocuments(_)
\* embeddings.py lines 234-238
CountDocuments(companies) ==
    IF companies = <<>> THEN 0
    ELSE (IF CompanyDirExists(Head(companies)) THEN Len(TranscriptFiles(Head(companies)))
          ELSE 0)
         + CountDocuments(Tail(companies))

\* round(processed / total * 100, 1), in tenths of a percent
Progress(processed_docs, total_docs) ==
    (2000 * processed_docs + total_docs) \div (2 * total_docs)

\* embeddings.py lines 79-83: the check that refuses a create request
AlreadyInProgress(status) == status = "processing"

\* a POST /embeddings/create reaches the server.  The handler is a coroutine
\* of the one event loop: it runs when the loop is free, which is after the
\* background job, if one runs, has finished.  Until then the request waits;
\* the status the dictionary holds at its arrival is kept beside it.
RequestArrives ==
    /\ Len(inbox) + Len(tasks) < MaxPending
    /\ inbox' = Append(inbox, embedding_status.status)
    /\ UNCHANGED <<store, whereMode, lastSearch, embeddings_available, api,
                   embedding_status, tasks, job, cache>>

\* POST /embeddings/create: the handler runs on the oldest waiting request
CreateEmbeddings(request) ==
    /\ job = NoJob
    /\ inbox # <<>>
    /\ inbox' = Tail(inbox)
    /\ IF AlreadyInProgress(embedding_status.status)
       THEN /\ api' = [op |-> "create", request |-> request,
                       resp |-> [status |-> 409]]
            /\ UNCHANGED <<embedding_status, tasks>>
       ELSE /\ embedding_status' =
                  [status |-> "starting", progress |-> 0, total_documents |-> 0,
                   processed_documents |-> 0, current_company |-> "None",
                   estimated_time_remaining |-> "None", error |-> "None"]
            /\ tasks' = Append(tasks, request)
            /\ api' = [op |-> "create", request |-> request,
                       resp |-> [status |-> 200]]
    /\ UNCHANGED <<store, whereMode, lastSearch, embeddings_available, job, cache>>

\* the background task starts: line 219.  attempted is what the task has
\* logged so far (lines 294, 296 and 325): each file the loop body has run
\* on and how that run ended.
JobStart ==
    /\ job = NoJob
    /\ tasks # <<>>
    /\ job' = [pc |-> "count", request |-> Head(tasks), ci |-> 1, fi |-> 1,
               processed_docs |-> 0, total_docs |-> 0, attempted |-> <<>>]
    /\ tasks' = Tail(tasks)
    /\ embedding_status' = [embedding_status EXCEPT !.status = "processing"]
    /\ UNCHANGED <<inbox, cache, store, whereMode, lastSearch, embeddings_available, api>>

\* JobCount without the outer except clause of lines 339-344: the exception
\* raised for a missing directory ends the task and nothing records it
JobCountUnhandled(dir_exists) ==
    /\ job.pc = "count"
    /\ IF dir_exists
       THEN LET total == CountDocuments(CompaniesToProcess(job.request))
            IN  /\ embedding_status' = [embedding_status EXCEPT !.total_documents = total]
                /\ job' = [job EXCEPT !.pc = "company", !.total_docs = total]
       ELSE /\ UNCHANGED embedding_status
            /\ job' = NoJob
    /\ UNCHANGED <<inbox, cache, store, whereMode, lastSearch, embeddings_available, api, tasks>>

\* lines 222-243: the directory is looked up and the documents are counted;
\* a missing transcripts directory raises, and the outer except records it
JobCount(dir_exists) ==
    /\ job.pc = "count"
    /\ IF dir_exists
       THEN LET total == CountDocuments(CompaniesToProcess(job.request))
            IN  /\ embedding_status' = [embedding_status EXCEPT !.total_documents = total]
                /\ job' = [job EXCEPT !.pc = "company", !.total_docs = total]
       ELSE /\ embedding_status' =
                  [embedding_status EXCEPT !.status = "error", !.error = "not found"]
            /\ job' = NoJob
    /\ UNCHANGED <<inbox, cache, store, whereMode, lastSearch, embeddings_available, api, tasks>>

\* lines 246-255: the next company of the loop
JobNextCompany ==
    /\ job.pc = "company"
    /\ job.ci <= Len(CompaniesToProcess(job.request))
    /\ LET company == CompaniesToProcess(job.request)[job.ci]
       IN  /\ embedding_status' = [embedding_status EXCEPT !.current_company = company]
           /\ job' = IF CompanyDirExists(company) /\ TranscriptFiles(company) # <<>>
                     THEN [job EXCEPT !.pc = "file", !.fi = 1]
                     ELSE [job EXCEPT !.ci = @ + 1]
    /\ UNCHANGED <<inbox, cache, store, whereMode, lastSearch, embeddings_available, api, tasks>>

\* JobProcessFile without the try of lines 258-326: an exception raised for
\* one file reaches the outer except clause, which ends the task
JobProcessFileAborts(outcome) ==
    /\ job.pc = "file"
    /\ LET company == CompaniesToProcess(job.request)[job.ci]
           files == TranscriptFiles(company)
           cal == files[job.fi]
           processed == job.processed_docs + 1
           ran == Append(job.attempted,
                         [company |-> company, cal |-> cal, outcome |-> outcome])
           next == IF job.fi < Len(files)
                   THEN [job EXCEPT !.fi = @ + 1, !.attempted = ran]
                   ELSE [job EXCEPT !.pc = "company", !.ci = @ + 1, !.attempted = ran]
       IN  /\ store' =
                 IF outcome = "stored"
                 THEN StoreDocumentChunks(store, company,
                          DocumentId(company, FilenameText(company, cal)),
                          FileChunks(company, cal),
                          FileMetadata(company, FilenameStem(company, cal)), cal)
                 ELSE store
           /\ IF outcome = "raised"
              THEN /\ job' = NoJob
                   /\ embedding_status' =
                         [embedding_status EXCEPT !.status = "error", !.error = "raised"]
              ELSE /\ job' = [next EXCEPT !.processed_docs = processed]
                   /\ embedding_status' =
                         [embedding_status EXCEPT
                             !.progress = Progress(processed, job.total_docs),
                             !.processed_documents = processed,
                             !.estimated_time_remaining = "set"]
    /\ UNCHANGED <<inbox, cache, whereMode, lastSearch, embeddings_available, api, tasks>>

\* lines 257-326: one transcript file.  outcome: "stored", "not_stored"
\* (store_document_chunks returned False) or "raised" (reading or chunking
\* raised, and the file is skipped)
JobProcessFile(outcome) ==
    /\ job.pc = "file"
    /\ LET company == CompaniesToProcess(job.request)[job.ci]
           files == TranscriptFiles(company)
           cal == files[job.fi]
           processed == job.processed_docs + 1
           ran == Append(job.attempted,
                         [company |-> company, cal |-> cal, outcome |-> outcome])
           next == IF job.fi < Len(files)
                   THEN [job EXCEPT !.fi = @ + 1, !.attempted = ran]
                   ELSE [job EXCEPT !.pc = "company", !.ci = @ + 1, !.attempted = ran]
       IN  /\ store' =
                 IF outcome = "stored"
                 THEN StoreDocumentChunks(store, company,
                          DocumentId(company, FilenameText(company, cal)),
                          FileChunks(company, cal),
                          FileMetadata(company, FilenameStem(company, cal)), cal)
                 ELSE store
           /\ IF outcome = "raised"
              THEN /\ job' = next
                   /\ UNCHANGED embedding_status
              ELSE /\ job' = [next EXCEPT !.processed_docs = processed]
                   /\ embedding_status' =
                         [embedding_status EXCEPT
                             !.progress = Progress(processed, job.total_docs),
                             !.processed_documents = processed,
                             !.estimated_time_remaining = "set"]
    /\ UNCHANGED <<inbox, cache, whereMode, lastSearch, embeddings_available, api, tasks>>

\* lines 329-334: completion
JobComplete ==
    /\ job.pc = "company"
    /\ job.ci > Len(CompaniesToProcess(job.request))
    /\ embedding_status' =
          [embedding_status EXCEPT !.status = "completed", !.progress = 1000,
                                   !.current_company = "None",
                                   !.estimated_time_remaining = "None"]
    /\ job' = NoJob
    /\ UNCHANGED <<inbox, cache, store, whereMode, lastSearch, embeddings_available, api, tasks>>

EmbedInit ==
    /\ store = <<>>
    /\ whereMode = "compare"
    /\ lastSearch = NoSearch
    /\ embeddings_available = TRUE
    /\ api = NoRequest
    /\ embedding_status = InitialStatus
    /\ tasks = <<>>
    /\ job = NoJob
    /\ inbox = <<>>
    /\ cache = NoCache

EmbedNext ==
    \/ RequestArrives
    \/ \E request \in EmbeddingRequests : CreateEmbeddings(request)
    \/ JobStart
    \/ \E dir_exists \in BOOLEAN : JobCount(dir_exists)
    \/ JobNextCompany
    \/ \E outcome \in {"stored", "not_stored", "raised"} : JobProcessFile(outcome)
    \/ JobComplete

EmbedSpec == EmbedInit /\ [][EmbedNext]_vars

\* The background task is run by the framework once the response is sent,
\* and its code is sequential: each of its steps is taken once it is
\* reached, every call in it returning or raising.
EmbedFairness ==
    /\ WF_vars(JobStart)
    /\ WF_vars(\E dir_exists \in BOOLEAN : JobCount(dir_exists))
    /\ WF_vars(JobNextCompany)
    /\ WF_vars(\E outcome \in {"stored", "not_stored", "raised"} : JobProcessFile(outcome))
    /\ WF_vars(JobComplete)

EmbedLiveSpec == EmbedSpec /\ EmbedFairness

\* the accepted jobs that have not finished: those waiting to start and the one running
UnfinishedJobs == Len(tasks) + (IF job = NoJob THEN 0 ELSE 1)

(* C10: create_embeddings never accepts a new generation job while a job   *)
(* accepted before has not finished, so at any time at most one accepted   *)
(* job is scheduled or running.                                            *)
C10_SingleJob == UnfinishedJobs <= 1

\* the step in which the handler of POST /embeddings/create answers the
\* oldest waiting request
Handled == inbox # <<>> /\ inbox' = Tail(inbox)

(* C11: a POST /embeddings/create received while the status is              *)
(* 'processing' is rejected with HTTP 409, schedules no background task    *)
(* and leaves every field of the status dictionary unchanged.              *)
C11_RejectedWhileProcessing ==
    [][(Handled /\ Head(inbox) = "processing")
          => /\ api'.resp.status = 409
             /\ tasks' = tasks
             /\ embedding_status' = embedding_status]_vars

\* the values the claim allows the status field, and the changes it allows
StatusValues == {"idle", "starting", "processing", "completed", "error"}

AllowedSteps ==
    {<<"idle", "starting">>, <<"starting", "processing">>, <<"processing", "completed">>,
     <<"processing", "error">>, <<"completed", "starting">>, <<"error", "starting">>}

(* C12: the status field only ever holds idle, starting, processing,       *)
(* completed or error, and it changes only along idle->starting,           *)
(* starting->processing, processing->completed, processing->error,         *)
(* completed->starting and error->starting; so 'processing' is always      *)
(* immediately preceded by 'starting'.                                     *)
C12_StatusSteps ==
    [][/\ embedding_status'.status \in StatusValues
       /\ embedding_status'.status # embedding_status.status
             => <<embedding_status.status, embedding_status'.status>> \in AllowedSteps]_vars

(* C13: every accepted embedding generation job eventually terminates with *)
(* the status set to 'completed' or 'error': a scheduled task starts, a    *)
(* started task ends, and the status never stays 'starting' or             *)
(* 'processing' forever.                                                   *)
C13_JobsTerminate ==
    /\ (tasks # <<>>) ~> (job # NoJob)
    /\ (job # NoJob) ~> (job = NoJob)
    /\ (embedding_status.status \in {"starting", "processing"})
          ~> (embedding_status.status \in {"completed", "error"})

\* an accepted job has gone through every transcript file and has completed
C13_Witness ==
    /\ api.op = "create"
    /\ api.resp.status = 200
    /\ UnfinishedJobs = 0
    /\ embedding_status.status = "completed"
    /\ embedding_status.processed_documents > 0

(* C14: in every reachable state of the embedding status,                  *)
(* 0 <= processed_documents <= total_documents and 0 <= progress <= 100    *)
(* (progress is in tenths of a percent here), for any sequence of create   *)
(* requests and background-job steps over a fixed set of transcript files. *)
C14_StatusBounds ==
    /\ 0 <= embedding_status.processed_documents
    /\ embedding_status.processed_documents <= embedding_status.total_documents
    /\ 0 <= embedding_status.progress
    /\ embedding_status.progress <= 1000

----------------------------------------------------------------------------
(* Regeneration over a store that an earlier job has filled.               *)

\* what an earlier job stored for AAPL's transcript of 2020-Apr-30, when the
\* file held an earlier text that split into two chunks
EarlierStore ==
    StoreDocumentChunks(<<>>, "AAPL",
        DocumentId("AAPL", FilenameText("AAPL", [y |-> 2020, m |-> 4, d |-> 30])),
        <<3, 1>>,
        FileMetadata("AAPL", FilenameStem("AAPL", [y |-> 2020, m |-> 4, d |-> 30])),
        [y |-> 2020, m |-> 4, d |-> 30])

RecreateInit ==
    /\ store = EarlierStore
    /\ whereMode = "compare"
    /\ lastSearch = NoSearch
    /\ embeddings_available = TRUE
    /\ api = NoRequest
    /\ embedding_status = InitialStatus
    /\ tasks = <<>>
    /\ job = NoJob
    /\ inbox = <<>>
    /\ cache = NoCache

\* the jobs of an environment without failures: the transcripts directory
\* exists and every file is read, split, encoded and stored
RecreateNext ==
    \/ RequestArrives
    \/ \E request \in EmbeddingRequests : CreateEmbeddings(request)
    \/ JobStart
    \/ JobCount(TRUE)
    \/ JobNextCompany
    \/ JobProcessFile("stored")
    \/ JobComplete

RecreateSpec == RecreateInit /\ [][RecreateNext]_vars

\* the stored chunks of a document, in the order of the store
DocumentChunks(st, document_id) == SelectSeq(st, LAMBDA e : e.document_id = document_id)

\* the job has gone through every file of every company it was asked for
AllFilesProcessed ==
    /\ job # NoJob
    /\ job.pc = "company"
    /\ job.ci > Len(CompaniesToProcess(job.request))

(* C15: when a generation job is created with force_recreate = true, after *)
(* the job each processed document's stored chunks are those produced by   *)
(* this job, replacing the chunks an earlier job stored.                   *)
C15_ForceRecreateReplaces ==
    (AllFilesProcessed /\ job.request.force_recreate)
        => \A company \in SeqRange(CompaniesToProcess(job.request)) :
              \A f \in DOMAIN TranscriptFiles(company) :
                 LET cal == TranscriptFiles(company)[f]
                     document_id == DocumentId(company, FilenameText(company, cal))
                 IN  DocumentChunks(store, document_id)
                        = StoreDocumentChunks(<<>>, company, document_id,
                              FileChunks(company, cal),
                              FileMetadata(company, FilenameStem(company, cal)), cal)

----------------------------------------------------------------------------
(* _split_into_chunks: sentence-based chunking of a transcript's text.     *)

\* the characters '.', '!' and '?' of the pattern [.!?]+
IsPunct(c) == c \in {46, 33, 63}

RECURSIVE ReSplit(_, _, _, _)
\* re.split(r'[.!?]+', text): the pieces between the runs of punctuation,
\* the empty pieces before a leading run and after a trailing run included.
\* pieces: the pieces closed so far; cur: the piece being read; in_run: the
\* previous character was punctuation
ReSplit(text, pieces, cur, in_run) ==
    IF text = <<>> THEN Append(pieces, cur)
    ELSE IF IsPunct(Head(text))
         THEN (IF in_run THEN ReSplit(Tail(text), pieces, cur, TRUE)
               ELSE ReSplit(Tail(text), Append(pieces, cur), <<>>, TRUE))
         ELSE ReSplit(Tail(text), pieces, Append(cur, Head(text)), FALSE)

\* lines 363-367 with a bug: the sentence that does not fit is not carried
\* into the next chunk
ChunkLoopDropsSentence(sentences, chunks, current_chunk, max_chunk_size) ==
    LET RECURSIVE Loop(_, _, _)
        Loop(ss, cs, cur) ==
            IF ss = <<>> THEN (IF Strip(cur) # <<>> THEN Append(cs, Strip(cur)) ELSE cs)
            ELSE LET sentence == Strip(Head(ss))
                 IN  IF sentence = <<>> THEN Loop(Tail(ss), cs, cur)
                     ELSE IF Len(cur) + Len(sentence) > max_chunk_size /\ cur # <<>>
                          THEN Loop(Tail(ss), Append(cs, Strip(cur)), <<>>)
                          ELSE Loop(Tail(ss), cs,
                                    IF cur # <<>> THEN cur \o <<32>> \o sentence
                                    ELSE sentence)
    IN  Loop(sentences, chunks, current_chunk)

RECURSIVE ChunkLoop(_, _, _, _)
\* lines 357-373: the loop over the sentences and the last chunk
ChunkLoop(sentences, chunks, current_chunk, max_chunk_size) ==
    IF sentences = <<>>
    THEN (IF Strip(current_chunk) # <<>> THEN Append(chunks, Strip(current_chunk))
          ELSE chunks)
    ELSE LET sentence == Strip(Head(sentences))
         IN  IF sentence = <<>>
             THEN ChunkLoop(Tail(sentences), chunks, current_chunk, max_chunk_size)
             ELSE IF Len(current_chunk) + Len(sentence) > max_chunk_size
                     /\ current_chunk # <<>>
                  THEN ChunkLoop(Tail(sentences), Append(chunks, Strip(current_chunk)),
                                 sentence, max_chunk_size)
                  ELSE ChunkLoop(Tail(sentences), chunks,
                                 IF current_chunk # <<>>
                                 THEN current_chunk \o <<32>> \o sentence
                                 ELSE sentence,
                                 max_chunk_size)

\* _split_into_chunks(text, max_chunk_size)
SplitIntoChunks(text, max_chunk_size) ==
    ChunkLoop(ReSplit(text, <<>>, <<>>, FALSE), <<>>, <<>>, max_chunk_size)

\* the characters of the texts: 'a', 'b', ' ', '.', '?'
TextChars == {97, 98, 32, 46, 63}

TextInputs == UNION {[1..n -> TextChars] : n \in 0..MaxTextLen}

\* the chunk sizes: small ones that force a split, and the 512 of line 272
ChunkSizes == {1, 3, 512}

SplitCall(text, max_chunk_size) ==
    /\ api = NoRequest
    /\ api' = [op |-> "split", text |-> text, max_chunk_size |-> max_chunk_size,
               resp |-> SplitIntoChunks(text, max_chunk_size)]
    /\ UNCHANGED <<store, whereMode, lastSearch, embeddings_available, embedding_status,
                   tasks, job, inbox, cache>>

\* the caller has taken the chunks
SplitReturned ==
    /\ api # NoRequest
    /\ api' = NoRequest
    /\ UNCHANGED <<store, whereMode, lastSearch, embeddings_available, embedding_status,
                   tasks, job, inbox, cache>>

ChunkInit ==
    /\ store = <<>>
    /\ whereMode = "compare"
    /\ lastSearch = NoSearch
    /\ embeddings_available = TRUE
    /\ api = NoRequest
    /\ embedding_status = InitialStatus
    /\ tasks = <<>>
    /\ job = NoJob
    /\ inbox = <<>>
    /\ cache = NoCache

ChunkNext ==
    \/ /\ api = NoRequest
       /\ \E text \in TextInputs, max_chunk_size \in ChunkSizes :
             SplitCall(text, max_chunk_size)
    \/ SplitReturned

ChunkSpec == ChunkInit /\ [][ChunkNext]_vars

\* The sentences of a text, stated without the splitting loop: the maximal
\* stretches of characters that hold no '.', '!' or '?', from left to right,
\* each trimmed, the empty ones left out.
SentenceStarts(text) ==
    {i \in DOMAIN text : ~IsPunct(text[i]) /\ (i = 1 \/ IsPunct(text[i - 1]))}

SentenceEnd(text, i) ==
    CHOOSE j \in i..Len(text) :
        /\ \A k \in i..j : ~IsPunct(text[k])
        /\ (j = Len(text) \/ IsPunct(text[j + 1]))

RECURSIVE SentencesFrom(_, _)
SentencesFrom(text, i) ==
    IF i > Len(text) THEN <<>>
    ELSE IF i \in SentenceStarts(text)
         THEN LET j == SentenceEnd(text, i)
                  sentence == Strip(SubSeq(text, i, j))
              IN  (IF sentence = <<>> THEN <<>> ELSE <<sentence>>)
                      \o SentencesFrom(text, j + 1)
         ELSE SentencesFrom(text, i + 1)

TrimmedSentences(text) == SentencesFrom(text, 1)

RECURSIVE JoinWithSpace(_)
JoinWithSpace(sentences) ==
    IF Len(sentences) = 1 THEN sentences[1]
    ELSE sentences[1] \o <<32>> \o JoinWithSpace(Tail(sentences))

RECURSIVE IsGrouping(_, _)
\* chunks is the list of sentences cut into consecutive non-empty groups:
\* one chunk per group, in order, each the sentences of its group joined by
\* single blanks
IsGrouping(chunks, sentences) ==
    IF chunks = <<>> \/ sentences = <<>> THEN chunks = <<>> /\ sentences = <<>>
    ELSE \E k \in 1..Len(sentences) :
            /\ Head(chunks) = JoinWithSpace(SubSeq(sentences, 1, k))
            /\ IsGrouping(Tail(chunks), SubSeq(sentences, k + 1, Len(sentences)))

(* C16: the sentences contained in the chunks returned by                  *)
(* _split_into_chunks, read in chunk order, are exactly the non-empty      *)
(* trimmed sentences of the input in their original order, none dropped,   *)
(* duplicated, reordered or divided between two chunks, and no returned    *)
(* chunk is empty.                                                         *)
C16_ChunksKeepSentences ==
    api.op = "split"
        => /\ \A k \in DOMAIN api.resp : api.resp[k] # <<>>
           /\ IsGrouping(api.resp, TrimmedSentences(api.text))

\* three sentences between punctuation: the first two share a chunk, the
\* third did not fit and makes a chunk of its own
C16_Witness ==
    /\ api.op = "split"
    /\ Len(TrimmedSentences(api.text)) = 3
    /\ Len(api.resp) = 2
    /\ Len(api.resp[1]) = 3

----------------------------------------------------------------------------
(* ChromaService.store_document_chunks, call by call.                      *)

\* the chunk lists store_document_chunks is called with: those of a
\* transcript, and the empty list of a text without a sentence
StoreChunkLists == ChunkLists \cup {<<>>}

\* One call.  encode_ok: the embedding model loads and encodes.  When it
\* does not, encode_texts raises; with no chunk, Collection.add refuses the
\* empty list of ids; both end in the except clause, which returns False.
StoreChunksCall(company, cal, chunks, encode_ok) ==
    /\ api = NoRequest
    /\ Len(store) + Len(chunks) <= MaxStored
    /\ LET document_id == DocumentId(company, FilenameText(company, cal))
           success == encode_ok /\ chunks # <<>>
       IN  /\ store' = IF success
                       THEN StoreDocumentChunks(store, company, document_id, chunks,
                                FileMetadata(company, FilenameStem(company, cal)), cal)
                       ELSE store
           /\ api' = [op |-> "store", company |-> company, document_id |-> document_id,
                      chunks |-> chunks, resp |-> success]
    /\ UNCHANGED <<whereMode, lastSearch, embeddings_available, embedding_status,
                   tasks, job, inbox, cache>>

\* the caller has taken the result
StoreChunksReturned ==
    /\ api # NoRequest
    /\ api' = NoRequest
    /\ UNCHANGED <<store, whereMode, lastSearch, embeddings_available, embedding_status,
                   tasks, job, inbox, cache>>

StoreInit ==
    /\ store = <<>>
    /\ whereMode = "compare"
    /\ lastSearch = NoSearch
    /\ embeddings_available = TRUE
    /\ api = NoRequest
    /\ embedding_status = InitialStatus
    /\ tasks = <<>>
    /\ job = NoJob
    /\ inbox = <<>>
    /\ cache = NoCache

StoreNext ==
    \/ /\ api = NoRequest
       /\ \E company \in DataCompanies, cal \in FileDates, chunks \in StoreChunkLists,
             encode_ok \in BOOLEAN :
             StoreChunksCall(company, cal, chunks, encode_ok)
    \/ StoreChunksReturned

StoreSpec == StoreInit /\ [][StoreNext]_vars

(* C17: after store_document_chunks succeeds for a document with n chunks, *)
(* the company's collection holds exactly one entry per chunk, with id     *)
(* '<document_id>_chunk_<i>', chunk_index i for i = 0..n-1, total_chunks   *)
(* n, the document id and the company in its metadata, and the embedding   *)
(* computed for that chunk's text.                                         *)
C17_OneEntryPerChunk ==
    (api.op = "store" /\ api.resp)
        => LET n == Len(api.chunks)
               entries == DocumentChunks(Collection(store, GetCollectionName(api.company)),
                                         api.document_id)
           IN  /\ Len(entries) = n
               /\ \A i \in 1..n :
                     \E k \in DOMAIN entries :
                        /\ entries[k].id = ChunkId(api.document_id, i - 1)
                        /\ entries[k].chunk_index = i - 1
                        /\ entries[k].total_chunks = n
                        /\ entries[k].document_id = api.document_id
                        /\ entries[k].company = api.company
                        /\ entries[k].document = api.chunks[i]
                        /\ entries[k].embedding = EncodeTexts(api.chunks)[i]

----------------------------------------------------------------------------
(* The embedding cache of EmbeddingService: one pickle file per cache key. *)

\* a model name an earlier configuration of the service used
EarlierModel == "earlier-model"

\* _get_cache_key: the MD5 digest of the text, taken to be free of
\* collisions on the texts
CacheKey(text) == (7 * text) % 10

\* save_embedding_to_cache: the file of the text's key is written anew
SaveEmbeddingToCache(c, text, embedding, model_name) ==
    (CacheKey(text) :> [text |-> text, embedding |-> embedding, model |-> model_name,
                        readable |-> TRUE]) @@ c

\* load_embedding_from_cache without the comparison of the model names
LoadEmbeddingFromCacheAnyModel(c, text, model_name) ==
    IF CacheKey(text) \notin DOMAIN c THEN NoneNum
    ELSE IF ~c[CacheKey(text)].readable THEN NoneNum
    ELSE Some(c[CacheKey(text)].embedding)

\* load_embedding_from_cache: None when there is no file, when the file
\* cannot be unpickled, and when it was written under another model name
LoadEmbeddingFromCache(c, text, model_name) ==
    IF CacheKey(text) \notin DOMAIN c THEN NoneNum
    ELSE IF ~c[CacheKey(text)].readable THEN NoneNum
    ELSE IF c[CacheKey(text)].model # model_name THEN NoneNum
    ELSE Some(c[CacheKey(text)].embedding)

RECURSIVE SaveAll(_, _, _)
\* lines 183-185: every text that was encoded is saved
SaveAll(c, texts, model_name) ==
    IF texts = <<>> THEN c
    ELSE SaveAll(SaveEmbeddingToCache(c, Head(texts), ModelEncode(model_name, Head(texts)),
                                      model_name),
                 Tail(texts), model_name)

\* encode_with_cache under the model model_name, when the model loads and
\* encodes: the embeddings returned and the cache left behind
EncodeWithCache(c, texts, use_cache, model_name) ==
    IF ~use_cache
    THEN [embeddings |-> [i \in DOMAIN texts |-> ModelEncode(model_name, texts[i])],
          cache |-> c]
    ELSE LET cached == [i \in DOMAIN texts |->
                           LoadEmbeddingFromCache(c, texts[i], model_name)]
             texts_to_encode == SelectSeq(texts,
                 LAMBDA t : ~LoadEmbeddingFromCache(c, t, model_name).some)
         IN  [embeddings |-> [i \in DOMAIN texts |->
                                 IF cached[i].some THEN cached[i].v
                                 ELSE ModelEncode(model_name, texts[i])],
              cache |-> SaveAll(c, texts_to_encode, model_name)]

\* the lists of texts a call encodes
TextLists == UNION {[1..n -> Texts] : n \in 0..MaxChunksPerDoc}

\* the service ran under an earlier configuration, with another model
EarlierRun(texts) ==
    /\ api = NoRequest
    /\ cache' = EncodeWithCache(cache, texts, TRUE, EarlierModel).cache
    /\ UNCHANGED <<store, whereMode, lastSearch, embeddings_available, api,
                   embedding_status, tasks, job, inbox>>

\* a cache file is cut short (a write that was interrupted): it cannot be
\* unpickled any more
CacheFileDamaged(key) ==
    /\ api = NoRequest
    /\ key \in DOMAIN cache
    /\ cache[key].readable
    /\ cache' = [cache EXCEPT ![key].readable = FALSE]
    /\ UNCHANGED <<store, whereMode, lastSearch, embeddings_available, api,
                   embedding_status, tasks, job, inbox>>

\* one call of encode_with_cache under the model in use; the cache it found
\* is kept beside the result
EncodeWithCacheCall(texts, use_cache) ==
    /\ api = NoRequest
    /\ LET out == EncodeWithCache(cache, texts, use_cache, EMBEDDING_MODEL)
       IN  /\ cache' = out.cache
           /\ api' = [op |-> "encode_with_cache", texts |-> texts,
                      use_cache |-> use_cache, found |-> cache, resp |-> out.embeddings]
    /\ UNCHANGED <<store, whereMode, lastSearch, embeddings_available,
                   embedding_status, tasks, job, inbox>>

\* the caller has taken the embeddings
EncodeReturned ==
    /\ api # NoRequest
    /\ api' = NoRequest
    /\ UNCHANGED <<store, whereMode, lastSearch, embeddings_available, embedding_status,
                   tasks, job, inbox, cache>>

CacheInit ==
    /\ store = <<>>
    /\ whereMode = "compare"
    /\ lastSearch = NoSearch
    /\ embeddings_available = TRUE
    /\ api = NoRequest
    /\ embedding_status = InitialStatus
    /\ tasks = <<>>
    /\ job = NoJob
    /\ inbox = <<>>
    /\ cache = NoCache

CacheNext ==
    \/ /\ api = NoRequest
       /\ \E texts \in TextLists : EarlierRun(texts)
    \/ \E key \in DOMAIN cache : CacheFileDamaged(key)
    \/ /\ api = NoRequest
       /\ \E texts \in TextLists, use_cache \in BOOLEAN : EncodeWithCacheCall(texts, use_cache)
    \/ EncodeReturned

CacheSpec == CacheInit /\ [][CacheNext]_vars

(* C18: the embedding cache is transparent: for any list of texts and any  *)
(* prior cache contents, entries written under a different model name      *)
(* included, encode_with_cache returns at every index i the embedding the  *)
(* current model produces for texts[i], the result of encode_texts on the  *)
(* same list.                                                              *)
C18_CacheTransparent ==
    api.op = "encode_with_cache" => api.resp = EncodeTexts(api.texts)

\* a call that found one of its texts cached under the model in use and
\* another one cached under the earlier model
C18_Witness ==
    /\ api.op = "encode_with_cache"
    /\ api.use_cache
    /\ \E i \in DOMAIN api.texts :
          LoadEmbeddingFromCache(api.found, api.texts[i], EMBEDDING_MODEL).some
    /\ \E i \in DOMAIN api.texts :
          /\ CacheKey(api.texts[i]) \in DOMAIN api.found
          /\ api.found[CacheKey(api.texts[i])].readable
          /\ api.found[CacheKey(api.texts[i])].model = EarlierModel

----------------------------------------------------------------------------
(* DELETE /embeddings/clear                                                *)

\* None where a str is optional, as the query parameter company
NoneStr == [some |-> FALSE, v |-> ""]

\* truthiness of an Optional[str]: None and "" are falsy
TruthyStr(opt) == opt.some /\ opt.v # ""

\* the values of the query parameter: absent, empty, a symbol in lower and
\* in upper case, and a symbol that is none of the ten
ClearCompanies == {NoneStr, Some(""), Some("aapl"), Some("MSFT"), Some("xyz")}

\* str.upper() on those values
Upper(str) ==
    CASE str = "aapl" -> "AAPL" [] str = "xyz" -> "XYZ" [] OTHER -> str

\* ChromaDBManager.delete_collection: the collection and all its entries
\* are removed
DeleteCollection(st, collection_name) ==
    SelectSeq(st, LAMBDA e : e.coll # collection_name)

\* delete_company_data with a bug: the whole database is reset
DeleteCompanyDataResets(st, company) == <<>>

\* ChromaService.delete_company_data.  For a symbol that is none of the ten
\* no collection of that name exists: the client raises, False is returned
\* and nothing is removed.
DeleteCompanyData(st, company) ==
    IF company \in Companies THEN DeleteCollection(st, GetCollectionName(company))
    ELSE st

RECURSIVE DeleteAll(_, _)
\* embeddings.py lines 152-154: every known company in turn
DeleteAll(st, companies) ==
    IF companies = <<>> THEN st
    ELSE DeleteAll(DeleteCompanyData(st, Head(companies)), Tail(companies))

\* EmbeddingService.clear_cache: every cache file is unlinked
ClearCache(c) == NoCache

\* clear_embeddings: the store and the cache it leaves
ClearEmbeddings(st, c, company) ==
    IF TruthyStr(company)
    THEN [store |-> DeleteCompanyData(st, Upper(company.v)), cache |-> c]
    ELSE [store |-> DeleteAll(st, CompanyList), cache |-> ClearCache(c)]

\* the request; what it found is kept beside the response
ClearEmbeddingsRequest(company) ==
    /\ api = NoRequest
    /\ LET out == ClearEmbeddings(store, cache, company)
       IN  /\ store' = out.store
           /\ cache' = out.cache
           /\ api' = [op |-> "clear", company |-> company, found_store |-> store,
                      found_cache |-> cache, resp |-> [status |-> 200]]
    /\ UNCHANGED <<whereMode, lastSearch, embeddings_available, embedding_status,
                   tasks, job, inbox>>

\* the response has been sent
ClearResponded ==
    /\ api # NoRequest
    /\ api' = NoRequest
    /\ UNCHANGED <<store, whereMode, lastSearch, embeddings_available, embedding_status,
                   tasks, job, inbox, cache>>

ClearInit ==
    /\ store = <<>>
    /\ whereMode = "compare"
    /\ lastSearch = NoSearch
    /\ embeddings_available = TRUE
    /\ api = NoRequest
    /\ embedding_status = InitialStatus
    /\ tasks = <<>>
    /\ job = NoJob
    /\ inbox = <<>>
    /\ cache = NoCache

\* transcripts are stored and texts are encoded through the cache, and the
\* embeddings are cleared, in any order
ClearNext ==
    \/ /\ api = NoRequest
       /\ \E company \in DataCompanies, chunks \in {<<1>>, <<2>>} :
             StoreChunksCall(company, [y |-> 2020, m |-> 4, d |-> 30], chunks, TRUE)
    \/ /\ api = NoRequest
       /\ \E texts \in {<<1>>, <<2>>} : EncodeWithCacheCall(texts, TRUE)
    \/ /\ api = NoRequest
       /\ \E company \in ClearCompanies : ClearEmbeddingsRequest(company)
    \/ ClearResponded

ClearSpec == ClearInit /\ [][ClearNext]_vars

\* the names of the collections of the ten known companies
KnownCollections == SeqRange(CollectionNames(CompanyList))

----------------------------------------------------------------------------
(* GET /health                                                             *)

\* ChromaDBManager.list_collections.  db_reachable: the client can be
\* created and answers.  When it does not, the exception is caught inside
\* and the empty list is returned: nothing is raised to the caller.
ListCollections(st, db_reachable) ==
    [raised |-> FALSE,
     v |-> IF db_reachable THEN {st[i].coll : i \in DOMAIN st} ELSE {}]

\* EmbeddingService.load_model.  load_ok: SentenceTransformer(...) builds
\* the model, or an earlier call has built it.
LoadModel(available, load_ok) == [raised |-> ~(available /\ load_ok)]

\* health.py lines 34-39
DatabaseStatus(listed) ==
    IF listed.raised THEN "error: database" ELSE "connected"

\* health.py lines 42-50
EmbeddingsStatus(available, load_ok) ==
    IF available
    THEN IF LoadModel(available, load_ok).raised THEN "error: model" ELSE "loaded"
    ELSE "unavailable: sentence-transformers compatibility issue"

\* "error" in status, on the statuses above
ContainsError(status) == status \in {"error: database", "error: model"}

\* health.py lines 53-56
OverallStatus(database_status, embeddings_status) ==
    IF ContainsError(database_status) \/ ContainsError(embeddings_status)
    THEN "degraded"
    ELSE "healthy"

\* health_check: the response, with the condition of the database and of
\* the model beside it
HealthCheck(db_reachable, load_ok) ==
    /\ api = NoRequest
    /\ LET database_status == DatabaseStatus(ListCollections(store, db_reachable))
           embeddings_status == EmbeddingsStatus(embeddings_available, load_ok)
       IN  api' = [op |-> "health", db_reachable |-> db_reachable, load_ok |-> load_ok,
                   resp |-> [status |-> OverallStatus(database_status, embeddings_status),
                             database_status |-> database_status,
                             embeddings_status |-> embeddings_status]]
    /\ UNCHANGED <<store, whereMode, lastSearch, embeddings_available, embedding_status,
                   tasks, job, inbox, cache>>

\* the response has been sent
HealthResponded ==
    /\ api # NoRequest
    /\ api' = NoRequest
    /\ UNCHANGED <<store, whereMode, lastSearch, embeddings_available, embedding_status,
                   tasks, job, inbox, cache>>

\* sentence-transformers was importable at start-up, or it was not
HealthInit ==
    /\ store = <<>>
    /\ whereMode = "compare"
    /\ lastSearch = NoSearch
    /\ embeddings_available \in BOOLEAN
    /\ api = NoRequest
    /\ embedding_status = InitialStatus
    /\ tasks = <<>>
    /\ job = NoJob
    /\ inbox = <<>>
    /\ cache = NoCache

\* transcripts are stored, which fails without the model, and the health
\* of the service is asked for, in any order
HealthNext ==
    \/ /\ api = NoRequest
       /\ \E company \in DataCompanies, cal \in FileDates, chunks \in StoreChunkLists :
             StoreChunksCall(company, cal, chunks, embeddings_available)
    \/ /\ api = NoRequest
       /\ \E db_reachable \in BOOLEAN, load_ok \in BOOLEAN :
             HealthCheck(db_reachable, load_ok)
    \/ HealthResponded

HealthSpec == HealthInit /\ [][HealthNext]_vars

(* C20: GET /health reports the overall status 'healthy' only when the     *)
(* database is reachable and the embedding model is available and loaded;  *)
(* when the database cannot be reached or the embedding service is         *)
(* unavailable or fails to load, the overall status is not 'healthy'.      *)
C20_HealthyOnlyWhenAllUp ==
    api.op = "health"
        => (api.resp.status = "healthy"
               => /\ api.db_reachable
                  /\ embeddings_available
                  /\ api.load_ok)

----------------------------------------------------------------------------
(* The background job and a file that fails                                *)

RECURSIVE FilesOf(_, _)
\* a company's transcript files, as the pairs the job works on
FilesOf(company, files) ==
    IF files = <<>> THEN <<>>
    ELSE <<[company |-> company, cal |-> Head(files)]>> \o FilesOf(company, Tail(files))

RECURSIVE SelectedFiles(_)
\* every transcript file of the companies, in the order of the two loops
SelectedFiles(companies) ==
    IF companies = <<>> THEN <<>>
    ELSE (IF CompanyDirExists(Head(companies))
          THEN FilesOf(Head(companies), TranscriptFiles(Head(companies)))
          ELSE <<>>)
         \o SelectedFiles(Tail(companies))

\* the files a job has run its loop body on, without the outcomes
AttemptedFiles(j) ==
    [i \in DOMAIN j.attempted |->
        [company |-> j.attempted[i].company, cal |-> j.attempted[i].cal]]

\* the job has got past the look-up of the transcripts directory
InLoops(j) == j.pc \in {"company", "file"}

(* C21: the background job is best-effort per file: an exception while     *)
(* reading, chunking or storing one transcript file does not abort the     *)
(* job; every remaining file of every selected company is still processed  *)
(* and the job ends with status 'completed', not 'error'.  A job that has  *)
(* entered its loops keeps running after a file raised, ends only after    *)
(* its loop body has run on every file of every selected company, ends     *)
(* with the status 'completed', and does end.                              *)
C21_BestEffortPerFile ==
    /\ [][InLoops(job) /\ job' = NoJob
             => /\ embedding_status'.status = "completed"
                /\ AttemptedFiles(job) = SelectedFiles(CompaniesToProcess(job.request))]_vars
    /\ InLoops(job) ~> (job = NoJob /\ embedding_status.status = "completed")

\* a job over all companies whose first file raised has gone on through the
\* two files that remained, one of which raised too, and is about to complete
C21_Witness ==
    /\ job.pc = "company"
    /\ job.ci > Len(CompaniesToProcess(job.request))
    /\ Len(job.attempted) = 3
    /\ job.attempted[1].outcome = "raised"
    /\ job.attempted[2].outcome = "stored"
    /\ job.attempted[3].outcome = "raised"

=============================================================================
